---- MODULE Spec2Model ----
(***************************************************************************)
(* Model of avhttp::multi_download (include/avhttp/multi_download.hpp).    *)
(*                                                                         *)
(* The coordinator is driven by one single-threaded io_service: open() and *)
(* close() are calls of the user, on_tick is the handler of the            *)
(* deadline_timer, handle_open / handle_request are the completion         *)
(* handlers of the asynchronous operations of the http_streams.  Every     *)
(* handler is one atomic action.  handle_read is never bound to any        *)
(* operation by the code, so it has no action.                             *)
(*                                                                         *)
(* Time is counted in whole seconds.  Strings whose contents the code      *)
(* inspects (header values) are sequences of one-character strings.        *)
(*                                                                         *)
(* An http_stream object is not given an identity.  An asynchronous        *)
(* operation is bound to the stream it was started on; what the model      *)
(* keeps of that is whether the stream is still the one its slot holds     *)
(* (the operation is in pending) or was replaced or dropped with its pool  *)
(* (the operation is in stale).                                            *)
(***************************************************************************)
EXTENDS Integers, Sequences, FiniteSets, Bags, TLC

\* ------------------------------------------------------------------ bounds
\* Last second of the clock.
MaxTime == 3
\* Largest number of asynchronous operations in flight on streams that no
\* slot holds any more.
MaxStale == 1
\* Largest number of async_wait operations outstanding on m_timer.
MaxWaits == 2

\* ------------------------------------------------------- program constants
default_time_out == 11
default_piece_size == 32768
default_connections_limit == 5

\* ------------------------------------------------------------------ strings
Str_keep_alive == <<"k", "e", "e", "p", "-", "a", "l", "i", "v", "e">>
Str_Keep_Alive == <<"K", "e", "e", "p", "-", "A", "l", "i", "v", "e">>
Str_close == <<"c", "l", "o", "s", "e">>
Str_12 == <<"1", "2">>
Str_neg1 == <<"-", "1">>
Str_x == <<"x">>
Str_range_12 == <<"b", "y", "t", "e", "s", " ", "0", "-", "1", "1", "/", "1", "2">>
Str_range_star == <<"b", "y", "t", "e", "s", " ", "0", "-", "1", "1", "/", "*">>
Str_range_none == <<"b", "y", "t", "e", "s", " ", "0", "-", "1", "1", "/">>

UpperChars == <<"A", "B", "C", "D", "E", "F", "G", "H", "I", "J", "K", "L", "M",
                "N", "O", "P", "Q", "R", "S", "T", "U", "V", "W", "X", "Y", "Z">>
LowerChars == <<"a", "b", "c", "d", "e", "f", "g", "h", "i", "j", "k", "l", "m",
                "n", "o", "p", "q", "r", "s", "t", "u", "v", "w", "x", "y", "z">>
DigitChars == <<"0", "1", "2", "3", "4", "5", "6", "7", "8", "9">>

\* boost::to_lower, one character.
to_lower_char(c) ==
    IF \E i \in 1..26 : UpperChars[i] = c
    THEN LowerChars[CHOOSE i \in 1..26 : UpperChars[i] = c]
    ELSE c

\* boost::to_lower on a whole string.
to_lower(s) == [i \in 1..Len(s) |-> to_lower_char(s[i])]

\* std::string::find(char): 1-based position of the first occurrence,
\* 0 for std::string::npos.
find(s, c) ==
    IF \E i \in 1..Len(s) : s[i] = c
    THEN CHOOSE i \in 1..Len(s) : s[i] = c /\ \A j \in 1..(i - 1) : s[j] # c
    ELSE 0

\* std::string::substr(pos) with pos the 0-based index after 1-based f.
substr(s, f) == SubSeq(s, f + 1, Len(s))

IsDigit(c) == \E i \in 1..10 : DigitChars[i] = c
DigitVal(c) == (CHOOSE i \in 1..10 : DigitChars[i] = c) - 1

RECURSIVE DigitsVal(_)
DigitsVal(s) ==
    IF s = <<>> THEN 0
    ELSE 10 * DigitsVal(SubSeq(s, 1, Len(s) - 1)) + DigitVal(s[Len(s)])

\* boost::lexical_cast<boost::int64_t>(std::string): an optional sign and
\* at least one digit, nothing else; ok = FALSE stands for bad_lexical_cast.
lexical_cast(s) ==
    LET signed == Len(s) > 0 /\ s[1] \in {"-", "+"}
        digits == IF signed THEN SubSeq(s, 2, Len(s)) ELSE s
    IN  IF digits # <<>> /\ \A i \in 1..Len(digits) : IsDigit(digits[i])
        THEN [ok |-> TRUE,
              val |-> IF signed /\ s[1] = "-" THEN 0 - DigitsVal(digits)
                      ELSE DigitsVal(digits)]
        ELSE [ok |-> FALSE, val |-> 0]

\* ------------------------------------------------------------------- inputs
Urls == {"http://a/f"}
StatusCodes == {"200", "206"}
\* Content-Length and Content-Range of the probe response, one pair for
\* each way the size can be read or fail to be read.
LengthHeaders ==
    {<<Str_12, <<>>>>, <<Str_12, Str_range_12>>, <<Str_x, Str_range_12>>,
     <<Str_neg1, <<>>>>, <<<<>>, <<>>>>, <<<<>>, Str_range_12>>,
     <<<<>>, Str_range_star>>, <<<<>>, Str_range_none>>}
\* Redirect target and Connection header of the probe response.
RouteHeaders == {<<"", Str_close>>, <<"http://b/f", Str_Keep_Alive>>}

Response(st, lh, rt) ==
    [ec |-> "ok", location |-> rt[1], status |-> st, content_length |-> lh[1],
     content_range |-> lh[2], connection |-> rt[2]]

\* What the synchronous probe h.open(u, ec) can come back with.
ProbeFailure ==
    [ec |-> "error", location |-> "", status |-> "", content_length |-> <<>>,
     content_range |-> <<>>, connection |-> <<>>]
ProbeResponses ==
    {Response(st, lh, rt) : st \in StatusCodes, lh \in LengthHeaders, rt \in RouteHeaders}
\* The responses the transfer is followed for: a plain 200 with a length,
\* and a 206 with a length, redirected and kept alive.
TransferResponses ==
    {Response("200", <<Str_12, <<>>>>, <<"", Str_close>>),
     Response("206", <<Str_12, Str_range_12>>, <<"http://b/f", Str_Keep_Alive>>)}

\* settings::settings(); m_meta_file, a path that open() only copies, is
\* left out.
DefaultSettings ==
    [m_download_rate_limit |-> -1, m_connections_limit |-> -1, m_piece_size |-> -1,
     m_time_out |-> default_time_out, m_downlad_mode |-> "dispersion_mode"]
\* struct settings with the fields open() reads given.
SettingsOf(c) ==
    [DefaultSettings EXCEPT
        !.m_connections_limit = c[1], !.m_piece_size = c[2], !.m_time_out = c[3]]
\* Settings with the connection limit given, and the same with the limit
\* left to its default as well.
Settings == {SettingsOf(c) : c \in {<<1, 1024, 2>>, <<2, -1, 1>>}}
AllSettings == Settings \cup {SettingsOf(<<-1, -1, 1>>)}
\* The settings open() is probed with: those, the ones of open(u, ec), and
\* ones with every other field off its default.
ProbeSettings ==
    AllSettings \cup
        {DefaultSettings,
         [SettingsOf(<<2, -1, 1>>) EXCEPT
             !.m_download_rate_limit = 100, !.m_downlad_mode = "compact_mode"]}

\* Completion codes of an asynchronous operation.
ErrorCodes == {"ok", "error"}

\* -------------------------------------------------------------------- state
VARIABLES
    now,             \* the wall clock, seconds
    m_streams,       \* sequence of http_stream_object: [last]
    m_final_url,
    m_accept_multi,
    m_keep_alive,
    m_file_size,
    m_settings,
    m_timer,         \* [expires_at, armed, cancelled]
    m_storage,       \* [constructed, writes]
    m_abort,
    pending,         \* operations in flight on the stream their slot holds
    stale,           \* bag of operations in flight on streams no slot holds
    opened,          \* history: the last open() returned success
    ticks,           \* history: number of on_tick runs that re-armed m_timer
    last,            \* history: the arguments and the probe result of the
                     \* open() that has just returned, "none" after any
                     \* other step
    resets           \* history, per slot: the second on_tick last reset it
                     \* at and the seconds between its last two resets, -1
                     \* where there is none

vars ==
    <<now, m_streams, m_final_url, m_accept_multi, m_keep_alive, m_file_size,
      m_settings, m_timer, m_storage, m_abort, pending, stale, opened, ticks,
      last, resets>>

\* ------------------------------------------------------------------ helpers
Max(a, b) == IF a > b THEN a ELSE b

\* An asynchronous operation: its kind and the index bound into its handler.
Operation(k, i) == [kind |-> k, index |-> i]

\* The operations in flight on the current streams of the slots in idxs
\* (0-based indexes).
OnSlots(idxs) == {op \in pending : op.index \in idxs}

\* multi_download::multi_download
Init ==
    /\ now = 0
    /\ m_streams = <<>>
    /\ m_final_url = ""
    /\ m_accept_multi = FALSE
    /\ m_keep_alive = FALSE
    /\ m_file_size = -1
    /\ m_settings = DefaultSettings
    /\ m_timer = [expires_at |-> 0, armed |-> 0, cancelled |-> 0]
    /\ m_storage = [constructed |-> FALSE, writes |-> 0]
    /\ m_abort = FALSE
    /\ pending = {}
    /\ stale = EmptyBag
    /\ opened = FALSE
    /\ ticks = 0
    /\ last = [op |-> "none"]
    /\ resets = <<>>

\* ----------------------------------------------------------------- open()
\* m_final_url after the probe: the redirect target, else the url given.
FinalUrl(u, r) == IF r.location # "" THEN r.location ELSE u

\* The status test of the probe.
StatusAccepts(r) == r.status = "206"

\* The text the file size is read from: Content-Length, else what follows
\* the first '/' of Content-Range, else the empty string.
LengthText(r) ==
    IF r.content_length # <<>> THEN r.content_length
    ELSE LET f == find(r.content_range, "/")
         IN  IF f # 0 THEN substr(r.content_range, f) ELSE <<>>

\* ProbeSize without the fall back to single mode when no size is found.
ProbeSize_status_only(r) ==
    LET cast == lexical_cast(LengthText(r))
    IN  IF ~StatusAccepts(r) THEN [accept |-> FALSE, size |-> -1]
        ELSE [accept |-> TRUE, size |-> IF cast.ok THEN cast.val ELSE -1]

\* m_accept_multi and m_file_size after the probe (m_file_size was set to
\* -1 on entry).
ProbeSize(r) ==
    IF ~StatusAccepts(r) THEN [accept |-> FALSE, size |-> -1]
    ELSE LET length == LengthText(r)
             cast == lexical_cast(length)
         IN  IF length = <<>> THEN [accept |-> FALSE, size |-> -1]
             ELSE IF cast.ok THEN [accept |-> TRUE, size |-> cast.val]
             ELSE [accept |-> FALSE, size |-> -1]

\* m_keep_alive after the probe.
KeepAlive(r) == to_lower(r.connection) = Str_keep_alive

\* ResolveSettings with the default piece size filled in whatever the size.
ResolveSettings_any_size(s, size) ==
    [s EXCEPT
        !.m_connections_limit =
            IF @ = -1 THEN default_connections_limit ELSE @,
        !.m_piece_size = IF @ = -1 THEN default_piece_size ELSE @]

\* m_settings after the defaults are filled in.
ResolveSettings(s, size) ==
    [s EXCEPT
        !.m_connections_limit =
            IF @ = -1 THEN default_connections_limit ELSE @,
        !.m_piece_size =
            IF @ = -1 /\ size # -1 THEN default_piece_size ELSE @]

\* PoolSize with the loop started at 0.
PoolSize_from_zero(accept, limit) == IF accept THEN 1 + Max(0, limit) ELSE 1

\* Number of slots open() leaves in m_streams: the probe's, and the ones of
\* the loop for (i = 1; i < m_connections_limit; i++) in multi mode.
PoolSize(accept, limit) == IF accept THEN Max(1, limit) ELSE 1

\* The operations open() starts on a pool of n slots: async_open for the
\* slots 1 .. n-1, async_request for slot 0.
OpenOperations(n) ==
    {Operation("open", i) : i \in 1..(n - 1)} \cup {Operation("request", 0)}

\* deadline_timer::async_wait
async_wait(t) == [t EXCEPT !.armed = @ + 1]

\* open_failed with the timer started before the result of the probe is
\* looked at.
open_failed_armed(u, s, r) ==
    /\ r.ec # "ok"
    /\ Cardinality(pending) + BagCardinality(stale) <= MaxStale
    /\ m_timer.armed + m_timer.cancelled < MaxWaits
    /\ m_streams' = <<>>
    /\ m_file_size' = -1
    /\ pending' = {}
    /\ stale' = stale (+) SetToBag(pending)
    /\ m_timer' = async_wait(m_timer)
    /\ opened' = FALSE
    /\ last' = [op |-> "open", ec |-> r.ec, url |-> u, cfg |-> s, resp |-> r]
    /\ resets' = <<>>
    /\ UNCHANGED <<now, m_final_url, m_accept_multi, m_keep_alive, m_settings,
                   m_storage, m_abort, ticks>>

\* open(), the probe failed: return ec after the pool was cleared.  The
\* operations of the old pool stay in flight, their handlers hold the
\* streams.
open_failed(u, s, r) ==
    /\ r.ec # "ok"
    /\ Cardinality(pending) + BagCardinality(stale) <= MaxStale
    /\ m_streams' = <<>>
    /\ m_file_size' = -1
    /\ pending' = {}
    /\ stale' = stale (+) SetToBag(pending)
    /\ opened' = FALSE
    /\ last' = [op |-> "open", ec |-> r.ec, url |-> u, cfg |-> s, resp |-> r]
    /\ resets' = <<>>
    /\ UNCHANGED <<now, m_final_url, m_accept_multi, m_keep_alive, m_settings,
                   m_timer, m_storage, m_abort, ticks>>

\* What open() reads off each response: ProbeSize and KeepAlive, worked out
\* once per response.
Probed ==
    [r \in ProbeResponses \cup TransferResponses |->
        [size |-> ProbeSize(r), keep_alive |-> KeepAlive(r)]]

\* open(), the probe succeeded.
open_ok(u, s, r) ==
    LET ps == Probed[r].size
        cfg == ResolveSettings(s, ps.size)
        n == PoolSize(ps.accept, cfg.m_connections_limit)
    IN  /\ r.ec = "ok"
        /\ m_timer.armed + m_timer.cancelled < MaxWaits
        /\ Cardinality(pending) + BagCardinality(stale) <= MaxStale
        /\ m_final_url' = FinalUrl(u, r)
        /\ m_accept_multi' = ps.accept
        /\ m_file_size' = ps.size
        /\ m_keep_alive' = Probed[r].keep_alive
        /\ m_storage' = [constructed |-> TRUE, writes |-> 0]
        /\ m_settings' = cfg
        /\ m_streams' = [i \in 1..n |-> [last |-> now]]
        /\ m_abort' = FALSE
        /\ pending' = OpenOperations(n)
        /\ stale' = stale (+) SetToBag(pending)
        /\ m_timer' = async_wait(m_timer)
        /\ opened' = TRUE
        /\ last' = [op |-> "open", ec |-> r.ec, url |-> u, cfg |-> s, resp |-> r]
        /\ resets' = [i \in 1..n |-> [at |-> -1, gap |-> -1]]
        /\ UNCHANGED <<now, ticks>>

\* ---------------------------------------------------------------- close()
\* close that also forgets what the probe found.
close_forgets ==
    /\ m_abort' = TRUE
    /\ m_accept_multi' = FALSE
    /\ m_file_size' = -1
    /\ last' = [op |-> "none"]
    /\ UNCHANGED <<now, m_streams, m_final_url, m_keep_alive, m_settings,
                   m_timer, m_storage, pending, stale, opened, ticks, resets>>

\* close(): sets the abort flag, nothing else.
close ==
    /\ m_abort' = TRUE
    /\ last' = [op |-> "none"]
    /\ UNCHANGED <<now, m_streams, m_final_url, m_accept_multi, m_keep_alive,
                   m_file_size, m_settings, m_timer, m_storage, pending, stale,
                   opened, ticks, resets>>

\* ------------------------------------------------------------- on_tick()
\* on_tick without the test of m_abort.
TickReschedules_always == TRUE

\* if (!m_abort): whether the handler re-arms the timer.
TickReschedules == ~m_abort

\* TimedOut with >= for >.
TimedOut_inclusive(i) == now - m_streams[i + 1].last >= m_settings.m_time_out

\* duration > seconds(m_time_out): whether the slot with 0-based index i is
\* reset.
TimedOut(i) == now - m_streams[i + 1].last > m_settings.m_time_out

\* Rearm from the clock: expires_from_now(seconds(1)).
Rearm_from_now(t) ==
    [expires_at |-> now + 1, armed |-> 1, cancelled |-> t.cancelled + t.armed]

\* m_timer after expires_at(expires_at() + seconds(1)) and async_wait:
\* setting the expiry cancels the waits still outstanding, whose handlers
\* are then run with operation_aborted.
Rearm(t) ==
    [expires_at |-> t.expires_at + 1, armed |-> 1, cancelled |-> t.cancelled + t.armed]

\* Stamped with the time of the request left as it was.
Stamped_never(slot) == slot

\* m_last_request_time = now, of the slot on_tick resets.
Stamped(slot) == [slot EXCEPT !.last = now]

\* The operations on the slots on_tick resets, were the streams kept where
\* the code replaces them: none leaves the slot.
Replaced_none(reset) == {}

\* ptr->m_stream.reset(new http_stream(m_io_service)): what was in flight on
\* the streams of the slots on_tick resets, and no longer is on a stream a
\* slot holds.
Replaced(reset) == OnSlots(reset)

\* The handler runs for a wait that expired ("expired") or for one that
\* was cancelled ("aborted"); on_tick takes no error_code and runs the same
\* way for both.  A slot that timed out closes its stream, takes a new one
\* and starts async_open on it; what was in flight on the old stream stays
\* in flight until its handler runs.
on_tick(w) ==
    LET waited == IF w = "expired" THEN [m_timer EXCEPT !.armed = @ - 1]
                  ELSE [m_timer EXCEPT !.cancelled = @ - 1]
        reset == {i \in 0..(Len(m_streams) - 1) : TimedOut(i)}
    IN  /\ \/ w = "expired" /\ m_timer.armed > 0 /\ now >= m_timer.expires_at
           \/ w = "aborted" /\ m_timer.cancelled > 0
        /\ TickReschedules => m_timer.expires_at < MaxTime
        /\ BagCardinality(stale) + Cardinality(Replaced(reset)) <= MaxStale
        /\ m_timer' = IF TickReschedules THEN Rearm(waited) ELSE waited
        /\ ticks' = IF TickReschedules THEN ticks + 1 ELSE ticks
        /\ m_streams' =
               [i \in 1..Len(m_streams) |->
                   IF (i - 1) \in reset THEN Stamped(m_streams[i]) ELSE m_streams[i]]
        /\ pending' =
               (pending \ Replaced(reset)) \cup {Operation("open", i) : i \in reset}
        /\ stale' = stale (+) SetToBag(Replaced(reset))
        /\ last' = [op |-> "none"]
        /\ resets' =
               [i \in 1..Len(m_streams) |->
                   IF (i - 1) \in reset
                   THEN [at |-> now,
                         gap |-> IF resets[i].at = -1 THEN -1 ELSE now - resets[i].at]
                   ELSE resets[i]]
        /\ UNCHANGED <<now, m_final_url, m_accept_multi, m_keep_alive,
                       m_file_size, m_settings, m_storage, m_abort, opened>>

\* ---------------------------------------------------- completion handlers
\* The operation op completes and leaves the ones in flight; cur tells
\* whether it ran on the stream its slot holds.
Completes(op, cur) ==
    IF cur
    THEN /\ op \in pending
         /\ pending' = pending \ {op}
         /\ stale' = stale
    ELSE /\ BagIn(op, stale)
         /\ stale' = stale (-) SetToBag({op})
         /\ pending' = pending

\* handle_open(index, stream_ptr, ec): prints, changes nothing; ec is not
\* looked at, the step is the same for every ec.
handle_open(op, cur, ec) ==
    /\ op.kind = "open"
    /\ Completes(op, cur)
    /\ last' = [op |-> "none"]
    /\ UNCHANGED <<now, m_streams, m_final_url, m_accept_multi, m_keep_alive,
                   m_file_size, m_settings, m_timer, m_storage, m_abort,
                   opened, ticks, resets>>

\* handle_request(index, stream_ptr, ec): prints, changes nothing; ec is not
\* looked at, the step is the same for every ec.
handle_request(op, cur, ec) ==
    /\ op.kind = "request"
    /\ Completes(op, cur)
    /\ last' = [op |-> "none"]
    /\ UNCHANGED <<now, m_streams, m_final_url, m_accept_multi, m_keep_alive,
                   m_file_size, m_settings, m_timer, m_storage, m_abort,
                   opened, ticks, resets>>

\* ------------------------------------------------------------- the clock
AdvanceTime ==
    /\ now < MaxTime
    /\ now' = now + 1
    /\ last' = [op |-> "none"]
    /\ UNCHANGED <<m_streams, m_final_url, m_accept_multi, m_keep_alive,
                   m_file_size, m_settings, m_timer, m_storage, m_abort,
                   pending, stale, opened, ticks, resets>>

\* ------------------------------------------------------- specifications
InFlight == pending \cup BagToSet(stale)

OpenFails == \E u \in Urls, s \in Settings : open_failed(u, s, ProbeFailure)
OpenSucceeds == \E u \in Urls, s \in Settings, r \in TransferResponses : open_ok(u, s, r)
OpenDefault == \E u \in Urls, s \in AllSettings, r \in TransferResponses : open_ok(u, s, r)
ProbeSucceeds == \E u \in Urls, s \in ProbeSettings, r \in ProbeResponses : open_ok(u, s, r)
Tick == \E w \in {"expired", "aborted"} : on_tick(w)
OpenCompletes ==
    \E op \in InFlight, cur \in BOOLEAN, ec \in ErrorCodes : handle_open(op, cur, ec)
RequestCompletes ==
    \E op \in InFlight, cur \in BOOLEAN, ec \in ErrorCodes : handle_request(op, cur, ec)

\* The coordinator on its event loop, the connection limit given.
Next ==
    \/ OpenFails
    \/ OpenSucceeds
    \/ close
    \/ Tick
    \/ OpenCompletes
    \/ RequestCompletes
    \/ AdvanceTime

Spec == Init /\ [][Next]_vars

\* The same, the connection limit also left to its default.
PoolNext ==
    \/ OpenFails
    \/ OpenDefault
    \/ close
    \/ Tick
    \/ OpenCompletes
    \/ RequestCompletes
    \/ AdvanceTime

PoolSpec == Init /\ [][PoolNext]_vars

\* open() over every probe response, the clock standing still.
ProbeNext ==
    \/ OpenFails
    \/ ProbeSucceeds
    \/ close
    \/ OpenCompletes
    \/ RequestCompletes

ProbeSpec == Init /\ [][ProbeNext]_vars

\* The coordinator with a time-out short enough for a slot to time out more
\* than once.
StallSettings == {SettingsOf(c) : c \in {<<1, 1024, 0>>, <<2, -1, 1>>}}
OpenStalls == \E u \in Urls, s \in StallSettings, r \in TransferResponses : open_ok(u, s, r)

StallNext ==
    \/ OpenFails
    \/ OpenStalls
    \/ close
    \/ Tick
    \/ OpenCompletes
    \/ RequestCompletes
    \/ AdvanceTime

StallSpec == Init /\ [][StallNext]_vars

\* The event loop runs every handler that is ready, every operation in
\* flight completes, and time passes.
Fairness ==
    /\ WF_vars(Tick)
    /\ WF_vars(OpenCompletes)
    /\ WF_vars(RequestCompletes)
    /\ WF_vars(AdvanceTime)

LiveSpec == Init /\ [][Next]_vars /\ Fairness

\* --------------------------------------------------------------- claims
\* Number of async_wait operations outstanding on m_timer.
Waits == m_timer.armed + m_timer.cancelled

\* Nothing is left for io_service::run to do.
Drained == Waits = 0 /\ pending = {} /\ stale = EmptyBag

\* The resource descriptor.
descriptor == <<m_final_url, m_accept_multi, m_keep_alive, m_file_size>>

\* The state is the one open() has just returned into, with success or not.
OpenReturned(ok) == last.op = "open" /\ (last.ec = "ok") = ok

\* A step in which a handler of the event loop runs.
Callback == Tick \/ OpenCompletes \/ RequestCompletes

\* Number of operations in flight, on current and on replaced streams.
InFlightCount == Cardinality(pending) + BagCardinality(stale)

\* A step that starts no asynchronous operation and takes no stream from
\* under one: what was in flight is what is in flight, or has completed.
NothingStarted ==
    /\ pending' \subseteq pending
    /\ stale' \sqsubseteq stale

\* C1: when the synchronous probe fails, open() returns the error and creates
\* no coordinator state: no slot is added to the pool, no asynchronous open or
\* request is started, the timer is not armed, the abort flag is not changed.
C1_FailedProbeCreatesNothing ==
    [][(last'.op = "open" /\ last'.ec # "ok") =>
          /\ Len(m_streams') <= Len(m_streams)
          /\ m_streams' = <<>>
          /\ InFlightCount' = InFlightCount
          /\ pending' = {}
          /\ m_timer' = m_timer
          /\ m_abort' = m_abort]_vars

\* open() has just failed on a coordinator that was open, closed, and whose
\* timer still has a wait outstanding.
C1_Witness == OpenReturned(FALSE) /\ m_abort /\ Waits > 0 /\ ~opened

\* C2: after close(), every callback that runs (the tick, every open or
\* request completion) returns without rescheduling the timer, without closing
\* or replacing the connection of any slot, without starting an asynchronous
\* open or request, and without a storage write.
C2_CallbacksAreNoOpsAfterClose ==
    [][(m_abort /\ Callback) =>
          /\ m_timer'.expires_at = m_timer.expires_at
          /\ Waits' <= Waits
          /\ m_streams' = m_streams
          /\ NothingStarted
          /\ m_storage' = m_storage]_vars

\* C3: once close() was called and no open() succeeds after it, the event
\* loop drains: eventually no timer wait and no asynchronous open or request
\* is outstanding, and none is ever again.
C3_LoopDrainsAfterClose == <>[]m_abort => <>[]Drained

\* A drained loop after close(), reached through ticks that had re-armed.
C3_Witness == m_abort /\ opened /\ Drained /\ ticks > 0

\* C4 as claimed: after a successful open, m_accept_multi is true exactly
\* when the status of the probe response was 206, whatever its headers.
C4_AcceptsIffStatus206 ==
    OpenReturned(TRUE) => (m_accept_multi = (last.resp.status = "206"))

\* C4, amended: after a successful open, m_accept_multi is true exactly when
\* the status of the probe response was 206 and a size could be read from it:
\* Content-Length, or without it what follows the '/' of Content-Range, is
\* not empty and is an integer.
C4_AcceptsIffStatus206AndSize ==
    OpenReturned(TRUE) =>
        (m_accept_multi =
            (/\ last.resp.status = "206"
             /\ LengthText(last.resp) # <<>>
             /\ lexical_cast(LengthText(last.resp)).ok))

\* A 206 without a readable size has just been probed: ranges are accepted
\* by the server and not by the coordinator.
C4_Witness ==
    OpenReturned(TRUE) /\ last.resp.status = "206" /\ ~m_accept_multi

\* The size the probe response states: Content-Length when present, else the
\* denominator of Content-Range, -1 when that is no number.
StatedSize(r) ==
    LET cast == lexical_cast(LengthText(r))
    IN  IF cast.ok THEN cast.val ELSE -1

\* C5: after a successful open, m_file_size is the Content-Length of the probe
\* response when present, else the denominator of its Content-Range, and -1
\* only when neither is a number, for every status of the probe.
C5_SizeFromHeaders == OpenReturned(TRUE) => m_file_size = StatedSize(last.resp)

\* C6: after a successful open, when m_accept_multi is false or the size is
\* unknown the pool has exactly one slot and nothing is in flight for another
\* slot of it; more than one slot only ever goes with a known size.
C6_SinglePoolWithoutRangesOrSize ==
    opened =>
        /\ (~m_accept_multi \/ m_file_size = -1) =>
               (Len(m_streams) = 1 /\ \A op \in pending : op.index = 0)
        /\ Len(m_streams) > 1 => m_file_size # -1

SlotReset(i) ==
    /\ m_streams'[i + 1].last = now
    /\ {op \in pending' : op.index = i} = {Operation("open", i)}
    /\ \A op \in OnSlots({i}) : CopiesIn(op, stale') = CopiesIn(op, stale) + 1

\* What a tick does to a slot it leaves alone.
SlotUntouched(i) ==
    /\ m_streams'[i + 1] = m_streams[i + 1]
    /\ {op \in pending' : op.index = i} = OnSlots({i})
    /\ \A op \in OnSlots({i}) : CopiesIn(op, stale') = CopiesIn(op, stale)

\* Nothing is outstanding on the slot.
Idle(i) == OnSlots({i}) = {}

\* C8 as claimed: a tick resets a slot exactly when its inactivity is greater
\* than time_out and the slot is not idle; every other slot is untouched.
C8_ResetIffTimedOutAndBusy ==
    [][Tick =>
          \A i \in 0..(Len(m_streams) - 1) :
              IF now - m_streams[i + 1].last > m_settings.m_time_out /\ ~Idle(i)
              THEN SlotReset(i) ELSE SlotUntouched(i)]_vars

\* C8, amended: a tick resets a slot exactly when its inactivity is greater
\* than time_out, whether or not anything is outstanding on it; a slot whose
\* inactivity is at most time_out is untouched.
C8_ResetIffTimedOut ==
    [][Tick =>
          \A i \in 0..(Len(m_streams) - 1) :
              IF now - m_streams[i + 1].last > m_settings.m_time_out
              THEN SlotReset(i) ELSE SlotUntouched(i)]_vars

\* Slot 0 has been reset by a tick at this second, and nothing had been
\* outstanding on it: only a tick starts an asynchronous open on slot 0.
C8_Witness ==
    /\ opened /\ Operation("open", 0) \in pending
    /\ m_streams[1].last = now /\ stale = EmptyBag

\* C9: every tick that re-arms the timer moves the deadline by one second
\* from the deadline before, not from the clock: after k such ticks the
\* deadline is the first deadline, that of the construction, plus k seconds.
C9_DeadlineIsFirstPlusTicks == m_timer.expires_at = 0 + ticks

\* Ticks have run late: the deadline they have set is behind the clock.
C9_Witness == ticks >= 2 /\ now > m_timer.expires_at /\ m_timer.armed > 0

\* C10: after the probe no tick, no completion handler and no close() changes
\* m_final_url, m_file_size, m_accept_multi or m_keep_alive.
C10_DescriptorFixedAfterProbe ==
    [][(close \/ Callback \/ AdvanceTime) => descriptor' = descriptor]_vars

\* The descriptor of a ranged, redirected, kept-alive resource, after ticks,
\* a reset and close().
C10_Witness ==
    /\ opened /\ m_abort /\ ticks > 0 /\ Operation("open", 0) \in pending
    /\ descriptor = <<"http://b/f", TRUE, TRUE, 12>>

\* C11: open() resolves the defaults: the connection limit is 5 when
\* configured as -1 and the configured one otherwise; the piece size is 32768
\* when configured as -1 and the size is known, the configured one otherwise,
\* so -1 stays with an unknown size; no other setting is altered; and a
\* settings object starts with time_out 11 and the dispersion mode.
C11_DefaultsResolvedAtOpen ==
    /\ DefaultSettings.m_time_out = 11
    /\ DefaultSettings.m_downlad_mode = "dispersion_mode"
    /\ OpenReturned(TRUE) =>
           /\ m_settings.m_connections_limit =
                  IF last.cfg.m_connections_limit = -1 THEN 5
                  ELSE last.cfg.m_connections_limit
           /\ m_settings.m_piece_size =
                  IF last.cfg.m_piece_size = -1 /\ m_file_size # -1 THEN 32768
                  ELSE last.cfg.m_piece_size
           /\ m_settings.m_time_out = last.cfg.m_time_out
           /\ m_settings.m_downlad_mode = last.cfg.m_downlad_mode
           /\ m_settings.m_download_rate_limit = last.cfg.m_download_rate_limit

\* open(u, ec) with its default settings has just returned on a response
\* without a size: the limit is 5 and the piece size is still -1.
C11_Witness ==
    /\ OpenReturned(TRUE) /\ last.cfg = DefaultSettings /\ m_file_size = -1
    /\ m_settings.m_connections_limit = 5 /\ m_settings.m_piece_size = -1

\* C12: when open() has succeeded and close() is never called, the transfer
\* completes: bytes are written to the storage, and then the tick stops
\* re-arming the timer and the loop drains.
C12_TransferCompletes ==
    <>[](opened /\ ~m_abort) => <>(m_storage.writes > 0 /\ Drained)

\* C13: an async_open that completes without error on the stream its slot
\* holds, the coordinator not aborted, is followed at once by an
\* async_request on that slot.
C13_RequestFollowsOpen ==
    [][\A op \in pending :
          (~m_abort /\ handle_open(op, TRUE, "ok")) =>
              Operation("request", op.index) \in pending']_vars

\* C14: an async_open or an async_request that completes with an error on
\* the stream its slot holds, the coordinator not aborted, resets the slot:
\* the stream is replaced and async_open is started on the new one.
C14_ErrorResetsSlot ==
    [][\A op \in pending :
          (/\ ~m_abort
           /\ handle_open(op, TRUE, "error") \/ handle_request(op, TRUE, "error")) =>
              /\ Operation("open", op.index) \in pending'
              /\ op.kind = "request" => Operation("request", op.index) \notin pending']_vars

\* C15: on_tick stamps the slot it resets with the current time, so between
\* two consecutive resets of one slot strictly more than time_out seconds
\* pass; a tick that follows within time_out of a reset leaves the slot alone.
C15_ResetsMoreThanTimeOutApart ==
    \A i \in 1..Len(resets) :
        resets[i].gap # -1 => resets[i].gap > m_settings.m_time_out

\* A slot has just been reset for the second time: its async_open is in
\* flight and the time of its previous reset is known.
C15_Witness ==
    \E i \in 1..Len(resets) :
        /\ resets[i].gap # -1
        /\ resets[i].at = now
        /\ m_streams[i].last = now
        /\ Operation("open", i - 1) \in pending

\* A handler of the tick timer is ready to run: a wait whose deadline has
\* passed, or a cancelled one.
TickReady ==
    \/ m_timer.armed > 0 /\ now >= m_timer.expires_at
    \/ m_timer.cancelled > 0

\* C16: two consecutive runs of on_tick are at least one second apart, however
\* late open() was called after the construction: when on_tick has run for
\* the only wait there was, no other run of it is due before the clock moves
\* on.
C16_TicksOneSecondApart == [][(Tick /\ Waits = 1) => ~TickReady']_vars

\* C17: whatever the sequence of open(), close() and ticks, at most one wait
\* on the tick timer is outstanding.
C17_AtMostOneWait == Waits <= 1

\* A completion handler runs for an operation on a stream that no slot
\* holds any more.
StaleCompletion ==
    \E op \in InFlight, ec \in ErrorCodes :
        handle_open(op, FALSE, ec) \/ handle_request(op, FALSE, ec)

\* C18: a completion handler runs only with an index of the pool and the
\* stream that slot holds: what completes on a stream that a reset replaced
\* or that an open() dropped is not handed to a handler.
C18_NoStaleCompletion ==
    [][/\ ~StaleCompletion
       /\ \A op \in pending, ec \in ErrorCodes :
              handle_open(op, TRUE, ec) \/ handle_request(op, TRUE, ec) =>
                  op.index < Len(m_streams)]_vars

\* Every operation in flight on a stream a slot holds is on a slot of the
\* pool, and no slot has an async_open and an async_request together.
OneOperationPerSlot ==
    /\ \A i \in 0..(Len(m_streams) - 1) : Cardinality(OnSlots({i})) <= 1
    /\ \A op \in pending : op.index \in 0..(Len(m_streams) - 1)

\* on_tick starts the async_open of a slot it resets on a stream of its own:
\* whatever was in flight on the slot has gone with the stream replaced.
ResetOnFreshStream ==
    \A i \in 1..Len(resets) :
        (Tick /\ resets'[i] # resets[i]) =>
            \A op \in OnSlots({i - 1}) : CopiesIn(op, stale') = CopiesIn(op, stale) + 1

\* C19: the stream a slot holds has at most one operation in flight, never an
\* open and a request and never two of a kind: open() starts one operation
\* per slot and on_tick starts async_open on a new stream only.
C19_OneOperationPerStream == []OneOperationPerSlot /\ [][ResetOnFreshStream]_vars

\* A tick has reset slot 0 with its request still in flight: the request is
\* on the stream that was replaced, the async_open on the one the slot holds.
C19_Witness ==
    /\ Len(m_streams) > 0
    /\ OnSlots({0}) = {Operation("open", 0)}
    /\ BagIn(Operation("request", 0), stale)
    /\ resets[1].at # -1
====
